---------------------------- MODULE Spec2Model ----------------------------
(***************************************************************************)
(* Lottus: a verse store (useReducer), a URL codec adapter (json-url),     *)
(* and a playback sequencer over the browser's speech engine.  Three       *)
(* revisions of the same screen are modelled side by side:                 *)
(*   "index"    src/src/index.tsx                                          *)
(*   "part_001" src/unnamed/part_001                                       *)
(*   "part_002" src/unnamed/part_002                                       *)
(* Indexes are 0-based as in the source; sequences are 1-based, so verse i *)
(* of the source is verses[i + 1] here.                                    *)
(***************************************************************************)
EXTENDS Integers, Sequences, FiniteSets, TLC

VARIABLES
    title,          \* useState<string>('')
    verses,         \* useReducer state: Verse[]
    prevVerses,     \* history: the reducer's input state of the last dispatch
    lastAction,     \* history: the reducer's input action of the last dispatch
    loaded,         \* useState<boolean>(false)
    decoding,       \* the decompress promise of the mount effect: "pending" | "settled"
    url,            \* window.location.pathname: "/" followed by a token
    historyLen,     \* number of entries of window.history
    compressing,    \* compress() promises not yet settled: the documents they were given
    encoded,        \* history: the document whose token the URL holds, if any
    nEdits,         \* number of user edits so far (bounded by MaxEdits)
    qrURL,          \* useState<string>(''): None, or the object URL shown
    closures,       \* for each pending compress: the qrURL its render's updateQRCode sees
    qrTimers,       \* debounce timers pending, in arming order: the qrURL each one sees
    objectURLs,     \* object URLs created and not revoked
    created,        \* number of object URLs created since the page was opened
    rev,            \* which revision of the screen runs
    engineOk,       \* FALSE: speechSynthesis.speak throws
    isPlaying,      \* isPlaying.current (index) / isPlaying state (part_001, part_002)
    currentVerse,   \* useState<number>(-1)
    currentTimeout, \* currentTimeout.current: -1, or the flow whose timer it names
    flows,          \* the promise chains started by Play and Test, in start order
    timers,         \* the flows with a pause timer pending, in the order they were armed
    synth           \* speechSynthesis' queue: flows with an utterance queued; head speaks

storeVars == <<title, verses>>
histVars  == <<prevVerses, lastAction>>
loadVars  == <<loaded, decoding, url, historyLen, compressing, encoded, nEdits>>
qrVars    == <<qrURL, closures, qrTimers, objectURLs, created>>
playVars  == <<rev, engineOk, isPlaying, currentVerse, currentTimeout, flows,
               timers, synth>>
vars      == <<title, verses, prevVerses, lastAction, loaded, decoding, url,
               historyLen, compressing, encoded, nEdits, qrURL, closures,
               qrTimers, objectURLs, created, rev, engineOk, isPlaying,
               currentVerse, currentTimeout, flows, timers, synth>>

---------------------------------------------------------------------------
(* Bounds *)

MaxVerses == 3      \* longest verse sequence the reducer is applied to
MaxPlayVerses == 2  \* longest document that is played
MaxFlows == 2       \* Play/Test clicks per behaviour
MaxLoadVerses == 2  \* longest document edited once loaded
MaxShared == 1      \* longest document of the token the page is first opened with
MaxEdits == 1       \* user edits per behaviour
MaxPending == 2     \* compress() promises in flight at once

---------------------------------------------------------------------------
(* JavaScript values *)

\* An optional value (undefined, null or absent against present) is a
\* sequence of at most one element; None is falsy, Some(x) is truthy for
\* the arrays and objects the reducer is handed.
None == <<>>
Some(x) == <<x>>
IsSome(m) == m # <<>>

Min(a, b) == IF a < b THEN a ELSE b
Max(a, b) == IF a > b THEN a ELSE b

\* Texts are sequences of characters; "," is the delimiter of makeUtterances.
Texts == {<<>>, <<"a">>, <<"a", ",", "b">>}
PauseDefault == 1000
SegmentPause == 300
\* Pauses a user gives a verse: 0.5 s, and the 1 s of a new verse
Pauses == {500, PauseDefault}
Titles == {"", "t"}

VerseValues == [text : Texts, pause : Pauses]

RECURSIVE SeqsUpTo(_, _)
SeqsUpTo(S, n) ==
    IF n = 0 THEN {<<>>}
    ELSE LET shorter == SeqsUpTo(S, n - 1)
         IN  shorter \cup {Append(s, x) : s \in {t \in shorter : Len(t) = n - 1}, x \in S}

\* Array.prototype.slice / splice clamp a relative index into 0..length.
RelIndex(i, len) == IF i < 0 THEN Max(len + i, 0) ELSE Min(i, len)

\* arr.slice(start, end), 0-based, end exclusive
Slice(arr, start, end) ==
    LET a == RelIndex(start, Len(arr))
        b == RelIndex(end, Len(arr))
    IN  IF b <= a THEN <<>> ELSE SubSeq(arr, a + 1, b)

SliceFrom(arr, start) == Slice(arr, start, Len(arr))

\* arr.splice(start, deleteCount): the removed elements are returned and
\* the array itself keeps the rest.
Splice(arr, start, deleteCount) ==
    LET a == RelIndex(start, Len(arr))
        n == Max(0, Min(deleteCount, Len(arr) - a))
    IN  [removed |-> SubSeq(arr, a + 1, a + n),
         rest    |-> SubSeq(arr, 1, a) \o SubSeq(arr, a + n + 1, Len(arr))]

\* arr.splice(start): everything from start on is removed
SpliceFrom(arr, start) == Splice(arr, start, Len(arr))

\* { ...a, ...b } on objects given as functions from field names
Spread(a, b) ==
    [k \in (DOMAIN a) \cup (DOMAIN b) |-> IF k \in DOMAIN b THEN b[k] ELSE a[k]]

EmptyObject == [k \in {} |-> 0]

\* verses[index] ?? {}
ElementOrEmpty(arr, index) ==
    IF index >= 0 /\ index < Len(arr) THEN arr[index + 1] ELSE EmptyObject

---------------------------------------------------------------------------
(* Verse store: the updateVerses reducer *)

\* { verses } / { index, verse } / { index, verse: null }
ReplaceAction(vs) == [index |-> None, verse |-> None, verses |-> Some(vs)]
VerseAction(i, v) == [index |-> Some(i), verse |-> Some(v), verses |-> None]
DeleteAction(i)   == [index |-> Some(i), verse |-> None, verses |-> None]

\* Both splice calls act on the same array: the second one sees what the
\* first one left.
DeleteBranch(vs, index) ==
    LET first  == Splice(vs, 0, index)
        second == SpliceFrom(first.rest, index + 1)
    IN  first.removed \o second.removed

UpdateBranch(vs, index, verse) ==
    Slice(vs, 0, index)
        \o <<Spread(ElementOrEmpty(vs, index), verse)>>
        \o SliceFrom(vs, index + 1)

updateVerses(vs, action) ==
    IF IsSome(action.verses) THEN action.verses[1]
    ELSE IF ~IsSome(action.verse)
         THEN DeleteBranch(vs, action.index[1])
         ELSE UpdateBranch(vs, action.index[1], action.verse[1])

---------------------------------------------------------------------------
(* The reducer applied to bounded inputs *)

PartialVerses ==
    [text : Texts] \cup [pause : Pauses] \cup VerseValues

NoAction == [index |-> None, verse |-> None, verses |-> None]

IdleQr ==
    /\ qrURL = None
    /\ closures = <<>>
    /\ qrTimers = <<>>
    /\ objectURLs = {}
    /\ created = 0

IdleLoad ==
    /\ IdleQr
    /\ loaded = TRUE
    /\ decoding = "settled"
    /\ url = <<"/">>
    /\ historyLen = 1
    /\ compressing = <<>>
    /\ encoded = None
    /\ nEdits = 0

IdlePlay ==
    /\ rev = "index"
    /\ engineOk = TRUE
    /\ isPlaying = FALSE
    /\ currentVerse = -1
    /\ currentTimeout = -1
    /\ flows = <<>>
    /\ timers = <<>>
    /\ synth = <<>>

InitReducer ==
    /\ title = ""
    /\ verses \in SeqsUpTo(VerseValues, MaxVerses)
    /\ prevVerses = verses
    /\ lastAction = NoAction
    /\ IdleLoad
    /\ IdlePlay

Dispatch(action) ==
    /\ prevVerses' = verses
    /\ lastAction' = action
    /\ verses' = updateVerses(verses, action)
    /\ UNCHANGED <<title, loadVars, qrVars, playVars>>

DispatchDelete ==
    \E k \in 0 .. Len(verses) - 1 : Dispatch(DeleteAction(k))

DispatchUpdate ==
    \E k \in 0 .. Len(verses) - 1, v \in PartialVerses :
        Dispatch(VerseAction(k, v))

DispatchAdd ==
    /\ Len(verses) < MaxVerses
    /\ Dispatch(VerseAction(Len(verses), [text |-> <<>>, pause |-> PauseDefault]))

DispatchReplace ==
    \E vs \in SeqsUpTo(VerseValues, 1) : Dispatch(ReplaceAction(vs))

NextReducer ==
    \/ DispatchDelete
    \/ DispatchUpdate
    \/ DispatchAdd
    \/ DispatchReplace

SpecReducer == InitReducer /\ [][NextReducer]_vars

\* The sequence s without its element at 0-based position k
RemoveAt(s, k) == SubSeq(s, 1, k) \o SubSeq(s, k + 2, Len(s))

IsDelete(a) == ~IsSome(a.verses) /\ ~IsSome(a.verse) /\ IsSome(a.index)

\* C1: deleting at k, 0 <= k < n, on an n-verse sequence yields the n-1
\* verses of the original without the element at k, in their order.
C1_DeleteRemovesOnlyK ==
    (IsDelete(lastAction) /\ lastAction.index[1] \in 0 .. Len(prevVerses) - 1)
        => /\ Len(verses) = Len(prevVerses) - 1
           /\ verses = RemoveAt(prevVerses, lastAction.index[1])

\* The reducer takes whatever index it is handed: a dispatch with an index
\* outside 0 .. length-1 runs the same two branches.
OutOfRange(len) == ((-1) .. (len + 1)) \ (0 .. (len - 1))

DispatchOutOfRange ==
    \E k \in OutOfRange(Len(verses)) :
        \E a \in {DeleteAction(k)} \cup {VerseAction(k, v) : v \in PartialVerses} :
            /\ Len(updateVerses(verses, a)) <= MaxVerses
            /\ Dispatch(a)

NextStore ==
    \/ DispatchDelete
    \/ DispatchUpdate
    \/ DispatchAdd
    \/ DispatchReplace
    \/ DispatchOutOfRange

SpecStore == InitReducer /\ [][NextStore]_vars

TakesIndex(a) == ~IsSome(a.verses) /\ IsSome(a.index)

\* C11: an update or delete whose index is outside 0 .. length-1 leaves the
\* verse sequence as it was (same length, same elements); the reducer has no
\* failing outcome, so unchanged is the only outcome the claim allows.
C11_OutOfRangeIsNoOp ==
    (TakesIndex(lastAction)
        /\ lastAction.index[1] \notin 0 .. Len(prevVerses) - 1)
        => verses = prevVerses

---------------------------------------------------------------------------
(* Playback sequencer: utterances *)

Revisions == {"index", "part_001", "part_002"}
PartRevs == {"part_001", "part_002"}

\* utterance.text of an empty text or part
Blank == <<" ">>

\* text.split(','): always at least one part
RECURSIVE Split(_)
Split(text) ==
    IF \E i \in 1 .. Len(text) : text[i] = ","
    THEN LET i == CHOOSE j \in 1 .. Len(text) :
                      /\ text[j] = ","
                      /\ \A k \in 1 .. j - 1 : text[k] # ","
         IN  <<SubSeq(text, 1, i - 1)>> \o Split(SubSeq(text, i + 1, Len(text)))
    ELSE <<text>>

\* index.tsx: one utterance per verse, text || ' '
makeUtterance(verse, index) ==
    [verse |-> index,
     text  |-> IF verse.text = <<>> THEN Blank ELSE verse.text,
     pause |-> verse.pause,
     last  |-> TRUE]

\* part_001 / part_002: one utterance per comma-separated part; every part
\* but the last is followed by the fixed 300 ms pause.
makeUtterances(r, verse, index) ==
    LET parts == Split(verse.text)
    IN  [p \in 1 .. Len(parts) |->
            [verse |-> index,
             text  |-> IF parts[p] = <<>> THEN Blank
                       ELSE IF r = "part_001" THEN <<".", ".", ".">> \o parts[p]
                       ELSE parts[p],
             pause |-> IF p = Len(parts) THEN verse.pause ELSE SegmentPause,
             last  |-> p = Len(parts)]]

\* The utterances speak(index) works through for one verse
VerseJobs(r, vs, index) ==
    IF r = "index" THEN <<makeUtterance(vs[index + 1], index)>>
    ELSE makeUtterances(r, vs[index + 1], index)

\* The utterances of a play() run over vs, verse by verse
RECURSIVE RunJobsFrom(_, _, _)
RunJobsFrom(r, vs, index) ==
    IF index >= Len(vs) THEN <<>>
    ELSE VerseJobs(r, vs, index) \o RunJobsFrom(r, vs, index + 1)

RunJobs(r, vs) == RunJobsFrom(r, vs, 0)

---------------------------------------------------------------------------
(* Playback sequencer: the state the handlers and callbacks work on.  One  *)
(* macrotask (a click, an utterance event, a timer) runs together with the *)
(* promise reactions it triggers, so each is one step of the model.        *)

\* A flow holds the verses array its closure captured.  index.tsx maps it
\* to utterances when play() is called; part_001/part_002 read verses[index]
\* from it when speak(index) is called, so jobs grows verse by verse.
NewFlow(kind, jobs, vs) ==
    [kind      |-> kind,        \* "play" | "test"
     jobs      |-> jobs,
     snap      |-> vs,          \* the captured array as it is now
     live      |-> TRUE,        \* the captured array is still the store's state
     n         |-> Len(vs),     \* steps of play()'s chain: verses.length at the call
     planned   |-> RunJobs(rev, vs),  \* history: the utterances of vs at the call
     pos       |-> 1,           \* the job being spoken or paused after
     phase     |-> "new",       \* queued | interrupted | pause | hung | settled | rejected
     spoken    |-> <<>>,        \* history: verse index of each utterance handed to the engine
     ended     |-> 0,           \* history: 'end' events handled
     fired     |-> 0,           \* history: pause timers fired
     stopped   |-> FALSE,       \* history: Stop was clicked while in flight
     stopPause |-> 0,           \* history: Len(spoken) when stopped in the pause after a verse
     cancelAt  |-> 0,           \* history: Len(spoken) when stop() cancelled its speaking utterance
     failed    |-> FALSE,       \* history: the engine failed the flow
     logged    |-> FALSE]       \* history: console.log was called by the run's catch

PlayState ==
    [isPlaying |-> isPlaying, currentVerse |-> currentVerse,
     currentTimeout |-> currentTimeout, flows |-> flows, timers |-> timers,
     synth |-> synth]

Commit(st) ==
    /\ isPlaying' = st.isPlaying
    /\ currentVerse' = st.currentVerse
    /\ currentTimeout' = st.currentTimeout
    /\ flows' = st.flows
    /\ timers' = st.timers
    /\ synth' = st.synth

InFlight(fl) == fl.phase \in {"queued", "pause"}

Job(fl) == fl.jobs[fl.pos]

\* speechSynthesis.speak(utterance): the utterance joins the engine's queue
Enqueue(st, f) ==
    [st EXCEPT !.synth = Append(@, f),
               !.flows[f].phase = "queued",
               !.flows[f].spoken = Append(@, Job(st.flows[f]).verse)]

\* The run's promise chain rejects: play() logs it and resets the flag in
\* its finally; the promise of a Test's speak(index) has no handlers.
Reject(st, f, engineFailed) ==
    LET fl == st.flows[f]
    IN  IF fl.kind = "play"
        THEN [st EXCEPT !.flows[f].phase = "rejected",
                        !.flows[f].failed = engineFailed,
                        !.flows[f].logged = TRUE,
                        !.isPlaying = FALSE]
        ELSE [st EXCEPT !.flows[f].phase = "rejected",
                        !.flows[f].failed = engineFailed]

\* part_001/part_002 speak: the executor of one part's promise.  When
\* speechSynthesis.speak throws, the inner chain rejects, .then(resolve) is
\* skipped, .finally clears currentVerse and the outer promise never settles.
StartSegment(st, f) ==
    IF engineOk THEN Enqueue(st, f)
    ELSE [st EXCEPT !.flows[f].phase = "hung",
                    !.flows[f].failed = TRUE,
                    !.currentVerse = -1]

\* speak(index, ...) entered for the verse of flow f's current job
speak(st, f) ==
    LET index == Job(st.flows[f]).verse
    IN  IF rev = "index"
        THEN IF st.isPlaying
             THEN LET shown == [st EXCEPT !.currentVerse = index]
                  IN  IF engineOk THEN Enqueue(shown, f)
                      ELSE Reject(shown, f, TRUE)
             ELSE Reject(st, f, FALSE)
        ELSE StartSegment([st EXCEPT !.currentVerse = index], f)

\* The end of a flow's promise chain after its last pause
Finish(st, f) ==
    LET fl == st.flows[f]
        done == [st EXCEPT !.flows[f].phase = "settled"]
    IN  IF fl.kind = "play" THEN [done EXCEPT !.isPlaying = FALSE]
        ELSE IF rev = "part_002" THEN [done EXCEPT !.isPlaying = FALSE]
        ELSE done

\* part_001/part_002: last.then(() => speak(index)) of play()'s chain.  The
\* default argument makeUtterances(verses[index]) is evaluated now, on the
\* captured array; when verses[index] is undefined the destructuring throws,
\* the chain rejects and play()'s catch and finally run.
SpeakNext(st, f) ==
    LET fl == st.flows[f]
        index == Job(fl).verse + 1
    IN  IF index < Len(fl.snap)
        THEN speak([st EXCEPT !.flows[f].jobs = @ \o VerseJobs(rev, fl.snap, index),
                              !.flows[f].pos = @ + 1], f)
        ELSE Reject(st, f, FALSE)

\* resolve() called by flow f's pause timer
Advance(st, f) ==
    LET fl == st.flows[f]
        next == [st EXCEPT !.flows[f].pos = @ + 1]
        more == fl.kind = "play" /\ Job(fl).verse + 1 < fl.n
    IN  IF rev = "index"
        THEN IF more
             THEN speak(next, f)
             ELSE Finish(st, f)
        ELSE IF ~Job(fl).last
             THEN StartSegment(next, f)
             ELSE LET cleared == [st EXCEPT !.currentVerse = -1]
                  IN  IF more
                      THEN SpeakNext(cleared, f)
                      ELSE Finish(cleared, f)

\* The 'end' listener of flow f's utterance
OnEnd(st, f) ==
    LET armed == [st EXCEPT !.currentTimeout = f,
                            !.timers = Append(@, f),
                            !.flows[f].phase = "pause",
                            !.flows[f].ended = @ + 1]
    IN  IF rev = "index" THEN [armed EXCEPT !.currentVerse = -1] ELSE armed

\* The sequence s without the flow f
Without(s, f) == SelectSeq(s, LAMBDA g : g # f)

\* clearTimeout(currentTimeout.current): the promise that timer would have
\* resolved stays pending for ever
ClearCurrentTimeout(st) ==
    LET t == st.currentTimeout
    IN  IF t \in DOMAIN st.flows /\ st.flows[t].phase = "pause"
        THEN [st EXCEPT !.flows[t].phase = "hung",
                        !.timers = Without(@, t)]
        ELSE st

\* speechSynthesis.cancel(): the queue is emptied; the utterance being
\* spoken is interrupted and its event ('end' or 'error', as the platform
\* has it) is delivered later; the ones not yet begun are dropped.
Cancel(st) ==
    [st EXCEPT !.synth = <<>>,
               !.flows = [f \in DOMAIN st.flows |->
                    IF st.flows[f].phase # "queued" THEN st.flows[f]
                    ELSE IF f = Head(st.synth)
                         THEN [st.flows[f] EXCEPT !.phase = "interrupted"]
                         ELSE [st.flows[f] EXCEPT !.phase = "hung"]]]

\* History: what each flow was doing when Stop was clicked
MarkStopped(st) ==
    [st EXCEPT !.flows = [f \in DOMAIN st.flows |->
        LET fl == st.flows[f]
        IN  IF ~InFlight(fl) THEN fl
            ELSE [fl EXCEPT
                    !.stopped = TRUE,
                    !.stopPause = IF fl.phase = "pause" /\ Job(fl).last
                                  THEN Len(fl.spoken) ELSE @,
                    !.cancelAt = IF rev \in PartRevs /\ fl.phase = "queued"
                                    /\ f = Head(st.synth)
                                 THEN Len(fl.spoken) ELSE @]]]

\* part_001/part_002 stop()
stop(st) ==
    [Cancel(ClearCurrentTimeout([st EXCEPT !.isPlaying = FALSE]))
        EXCEPT !.currentVerse = -1]

\* index.tsx Stop button onClick
StopHandler(st) ==
    ClearCurrentTimeout([st EXCEPT !.isPlaying = FALSE])

\* play(): the chain over the verses; the flag is set by the click handler
\* (index) or by play itself (part_001, part_002)
play(st) ==
    LET jobs == IF rev = "index" THEN RunJobs(rev, verses)
                ELSE IF verses = <<>> THEN <<>>
                ELSE VerseJobs(rev, verses, 0)
        f == Len(st.flows) + 1
        begun == [st EXCEPT !.isPlaying = TRUE,
                            !.flows = Append(@, NewFlow("play", jobs, verses))]
    IN  IF verses = <<>> THEN Finish(begun, f) ELSE speak(begun, f)

\* Test button onClick for verse index
test(st, index) ==
    LET f == Len(st.flows) + 1
        begun == [st EXCEPT !.isPlaying = TRUE,
                            !.flows = Append(@, NewFlow("test", VerseJobs(rev, verses, index),
                                                        verses))]
    IN  speak(begun, f)

---------------------------------------------------------------------------
(* Playback sequencer: steps *)

PlayFrame == UNCHANGED <<storeVars, histVars, loadVars, qrVars, rev, engineOk>>

\* The buttons part_002 disables while isPlaying
ControlsEnabled == rev = "part_002" => ~isPlaying

ClickPlay ==
    /\ loaded
    /\ ControlsEnabled
    /\ Len(flows) < MaxFlows
    /\ Commit(play(PlayState))
    /\ PlayFrame

ClickTest ==
    /\ loaded
    /\ ControlsEnabled
    /\ Len(flows) < MaxFlows
    /\ \E index \in 0 .. Len(verses) - 1 : Commit(test(PlayState, index))
    /\ PlayFrame

ClickStop ==
    /\ loaded
    /\ rev = "part_002" => isPlaying
    /\ Commit(IF rev = "index" THEN StopHandler(MarkStopped(PlayState))
              ELSE stop(MarkStopped(PlayState)))
    /\ PlayFrame

\* The engine finishes the utterance it is speaking: 'end'
UtteranceEnd ==
    /\ synth # <<>>
    /\ Commit(OnEnd([PlayState EXCEPT !.synth = Tail(@)], Head(synth)))
    /\ PlayFrame

\* The engine fails the utterance it is speaking: 'error', which no
\* listener is registered for
UtteranceError ==
    /\ synth # <<>>
    /\ Commit([PlayState EXCEPT !.synth = Tail(@),
                                !.flows[Head(synth)].phase = "hung",
                                !.flows[Head(synth)].failed = TRUE])
    /\ PlayFrame

\* The event of an utterance interrupted by cancel() is 'end'
InterruptedEnd ==
    /\ \E f \in DOMAIN flows :
        /\ flows[f].phase = "interrupted"
        /\ Commit(OnEnd(PlayState, f))
    /\ PlayFrame

\* The event of an utterance interrupted by cancel() is 'error'
InterruptedError ==
    /\ \E f \in DOMAIN flows :
        /\ flows[f].phase = "interrupted"
        /\ Commit([PlayState EXCEPT !.flows[f].phase = "hung"])
    /\ PlayFrame

\* Timers fire in the order of their deadlines: a timer armed earlier with
\* a delay no longer than that of timers[i] fires before it.
MayFire(i) ==
    \A j \in 1 .. i - 1 :
        Job(flows[timers[j]]).pause > Job(flows[timers[i]]).pause

\* A pause timer fires: setTimeout(resolve, pause)
TimerFire ==
    /\ \E i \in DOMAIN timers :
        LET f == timers[i]
        IN  /\ MayFire(i)
            /\ Commit(Advance([PlayState EXCEPT !.flows[f].fired = @ + 1,
                                                !.timers = Without(@, f)], f))
    /\ PlayFrame

Init ==
    /\ title = ""
    /\ verses \in SeqsUpTo(VerseValues, MaxPlayVerses)
    /\ prevVerses = <<>>
    /\ lastAction = NoAction
    /\ IdleLoad
    /\ rev \in Revisions
    /\ engineOk \in BOOLEAN
    /\ isPlaying = FALSE
    /\ currentVerse = -1
    /\ currentTimeout = -1
    /\ flows = <<>>
    /\ timers = <<>>
    /\ synth = <<>>

Next ==
    \/ ClickPlay
    \/ ClickTest
    \/ ClickStop
    \/ UtteranceEnd
    \/ UtteranceError
    \/ InterruptedEnd
    \/ InterruptedError
    \/ TimerFire

Spec == Init /\ [][Next]_vars

---------------------------------------------------------------------------
(* Playback sequencer: properties *)

Idle == ~isPlaying /\ currentVerse = -1

\* Nothing is pending: no utterance queued, no event owed, no timer armed
Quiescent ==
    \A f \in DOMAIN flows : flows[f].phase \notin {"queued", "interrupted", "pause"}

\* The verse indexes of the first n utterances of a flow, in order
JobVerses(fl, n) == [j \in 1 .. n |-> fl.jobs[j].verse]

UtterancesQueued(f) == Cardinality({i \in DOMAIN synth : synth[i] = f})

\* C2: in index.tsx and part_002, a play() run that is not stopped hands
\* its verses to the speech engine in document order, each exactly once;
\* an utterance is started only after the one before it has reported 'end'
\* and its pause timer has fired; the run never has two utterances in the
\* engine.
C2_RunSpeaksEachVerseInOrder ==
    \A f \in DOMAIN flows :
        LET fl == flows[f]
        IN  (rev \in {"index", "part_002"} /\ fl.kind = "play" /\ ~fl.stopped)
            => /\ Len(fl.spoken) <= Len(fl.jobs)
               /\ fl.spoken = JobVerses(fl, Len(fl.spoken))
               /\ Len(fl.spoken) <= fl.ended + 1
               /\ Len(fl.spoken) <= fl.fired + 1
               /\ UtterancesQueued(f) <= 1
               /\ (fl.phase \in {"settled", "rejected"} /\ ~fl.failed)
                    => fl.spoken = JobVerses(fl, Len(fl.jobs))

StopInPauseStep ==
    \E f \in DOMAIN flows :
        /\ flows[f].kind = "play"
        /\ flows[f].stopPause = 0
        /\ f \in DOMAIN flows'
        /\ flows'[f].stopPause # 0

\* C3: in index.tsx and part_002, a Stop clicked while a run is in the
\* pause after verse i leaves the playback state Idle, and verse i+1 of
\* that run is never started afterwards.
C3_StopInPauseEndsRun ==
    /\ [](\A f \in DOMAIN flows :
            (rev \in {"index", "part_002"} /\ flows[f].kind = "play"
                /\ flows[f].stopPause # 0)
            => Len(flows[f].spoken) = flows[f].stopPause)
    /\ [][(rev \in {"index", "part_002"} /\ StopInPauseStep)
            => (~isPlaying' /\ currentVerse' = -1)]_vars

\* C4: in part_001 and part_002, the 'end' event of an utterance that
\* stop() interrupted is ignored: no pause timer is armed for it, no
\* further utterance of its flow is started, and playback stays Idle while
\* no new Play or Test is issued.
C4_StaleEndIgnored ==
    \A f \in DOMAIN flows :
        (rev \in PartRevs /\ flows[f].cancelAt # 0)
        => /\ flows[f].phase \in {"interrupted", "hung"}
           /\ Len(flows[f].spoken) = flows[f].cancelAt
           /\ Len(flows) = 1 => Idle

\* C5: in every revision there are never two playback flows in flight.
C5_NoOverlappingFlows ==
    Cardinality({f \in DOMAIN flows : InFlight(flows[f])}) <= 1

\* C6: in every revision, when the speech engine fails a run (speak throws,
\* or the utterance ends in 'error'), the run aborts: once nothing is
\* pending the playback state is Idle and the failure has been logged.
C6_EngineFailureAbortsRun ==
    \A f \in DOMAIN flows :
        (flows[f].kind = "play" /\ flows[f].failed /\ ~flows[f].stopped
            /\ f = Len(flows) /\ Quiescent)
        => (Idle /\ flows[f].logged)

\* C7: in part_002, during a play() run currentVerse is i while verse i's
\* utterance is being spoken and -1 while none is, the pause between two
\* verses included.
C7_CurrentVerseTracksUtterance ==
    \A f \in DOMAIN flows :
        LET fl == flows[f]
        IN  (rev = "part_002" /\ fl.kind = "play" /\ ~fl.stopped /\ ~fl.failed)
            => /\ (fl.phase = "queued" /\ Head(synth) = f)
                    => currentVerse = Job(fl).verse
               /\ fl.phase = "pause" => currentVerse = -1

---------------------------------------------------------------------------
(* URL codec adapter: json-url's lzw codec, a library.  It packs the JSON  *)
(* value (msgpack: counts and lengths first), compresses it and writes it  *)
(* in URL-safe base64; here a token is the packed sequence of atoms behind *)
(* the codec's name, and decompress parses it back or rejects.             *)

Document(t, vs) == [title |-> t, verses |-> vs]

Numerals == (0 .. 9) \cup Pauses \cup {SegmentPause}

PackVerse(v) == <<ToString(Len(v.text))>> \o v.text \o <<ToString(v.pause)>>

RECURSIVE PackVerses(_)
PackVerses(vs) ==
    IF vs = <<>> THEN <<>> ELSE PackVerse(Head(vs)) \o PackVerses(Tail(vs))

\* jsonURL('lzw').compress(value)
compress(doc) ==
    <<"lzw", doc.title, ToString(Len(doc.verses))>> \o PackVerses(doc.verses)

IsNumeral(a) == \E n \in Numerals : ToString(n) = a
NumeralValue(a) == CHOOSE n \in Numerals : ToString(n) = a

Failed == [ok |-> FALSE, value |-> <<>>, rest |-> <<>>]

\* One packed verse at the head of atoms
UnpackVerse(atoms) ==
    IF atoms = <<>> \/ ~IsNumeral(Head(atoms)) THEN Failed
    ELSE LET n == NumeralValue(Head(atoms))
         IN  IF Len(atoms) < n + 2 \/ ~IsNumeral(atoms[n + 2]) THEN Failed
             ELSE [ok    |-> TRUE,
                   value |-> [text  |-> SubSeq(atoms, 2, n + 1),
                              pause |-> NumeralValue(atoms[n + 2])],
                   rest  |-> SubSeq(atoms, n + 3, Len(atoms))]

\* count packed verses at the head of atoms
RECURSIVE UnpackVerses(_, _)
UnpackVerses(atoms, count) ==
    IF count = 0 THEN [ok |-> TRUE, value |-> <<>>, rest |-> atoms]
    ELSE LET first == UnpackVerse(atoms)
         IN  IF ~first.ok THEN Failed
             ELSE LET others == UnpackVerses(first.rest, count - 1)
                  IN  IF ~others.ok THEN Failed
                      ELSE [ok    |-> TRUE,
                            value |-> <<first.value>> \o others.value,
                            rest  |-> others.rest]

\* jsonURL('lzw').decompress(token): ok with the value, or a rejection
decompress(token) ==
    IF Len(token) < 3 \/ token[1] # "lzw" \/ ~IsNumeral(token[3])
    THEN [ok |-> FALSE, value |-> Document("", <<>>)]
    ELSE LET vs == UnpackVerses(SubSeq(token, 4, Len(token)), NumeralValue(token[3]))
         IN  IF vs.ok /\ vs.rest = <<>>
             THEN [ok |-> TRUE, value |-> Document(token[2], vs.value)]
             ELSE [ok |-> FALSE, value |-> Document("", <<>>)]

---------------------------------------------------------------------------
(* URL codec adapter: the mount effect and the encode effect *)

\* window.location.pathname.slice(1)
PathToken(pathname) == Tail(pathname)

\* The URL a relative reference resolves to: the last segment of the
\* current path is replaced.
Resolve(pathname, reference) ==
    LET slashes == {i \in DOMAIN pathname : pathname[i] = "/"}
        last == CHOOSE i \in slashes : \A j \in slashes : j <= i
    IN  SubSeq(pathname, 1, last) \o reference

\* window.history.replaceState({}, '', output): the current entry is
\* rewritten, none is added
replaceState(h, output) == [len |-> h.len, url |-> Resolve(h.url, output)]

\* The value handed to compress: { verses, title }
EncodeArg(t, vs) == Document(t, vs)

\* Mutant: the effect does not wait for loaded
EncodeEffectAlways(ld) == TRUE

\* if (loaded) in the encode effect
EncodeEffectRuns(ld) == ld

\* The encode effect after a render in which title, verses or loaded
\* changed: a compress is started when it runs
EncodeEffect(pending, changed, ld, t, vs) ==
    IF changed /\ EncodeEffectRuns(ld) THEN Append(pending, EncodeArg(t, vs))
    ELSE pending

\* Mutant: the callback forgets setTitle
DecodeThenWithoutTitle(doc, vs) ==
    Document("", updateVerses(vs, ReplaceAction(doc.verses)))

\* .then(({ verses, title }) => { setTitle(title); updateVerses({ verses }) })
DecodeThen(doc, vs) ==
    Document(doc.title, updateVerses(vs, ReplaceAction(doc.verses)))

\* Mutant: setLoaded(true) is called in .then only
LoadedOnlyOnSuccess(ok) == ok

\* .finally(() => setLoaded(true)): whatever the outcome
LoadedAfterDecode(ok) == TRUE

Doc == Document(title, verses)

\* updateQRCode = debounce(..., 500) is built anew by every render, over
\* that render's qrURL; the encode effect's then callback calls the one of
\* the render the effect ran in.  cl is brought to the length of pending:
\* the compress started now goes with the qrURL of this render.
Capture(cl, pending, q) ==
    cl \o [i \in 1 .. (Len(pending) - Len(cl)) |-> q]

\* The debounced function called once: a timer of 500 ms is armed
updateQRCode(pendingTimers, q) == Append(pendingTimers, q)

\* URL.revokeObjectURL(qrURL) under if (qrURL)
Revoke(urls, q) == IF IsSome(q) THEN urls \ {q[1]} ELSE urls

LoadFrame == UNCHANGED <<histVars, playVars>>

\* The decompress promise of the mount effect settles: then / catch /
\* finally and the renders they cause
DecodeSettle ==
    /\ decoding = "pending"
    /\ LET result == decompress(PathToken(url))
           doc == IF result.ok THEN DecodeThen(result.value, verses) ELSE Doc
           ld == LoadedAfterDecode(result.ok)
           early == EncodeEffect(compressing, result.ok, loaded, doc.title, doc.verses)
       IN  /\ title' = doc.title
           /\ verses' = doc.verses
           /\ loaded' = ld
           /\ compressing' = EncodeEffect(early, ld # loaded, ld, doc.title, doc.verses)
           /\ closures' = Capture(closures,
                    EncodeEffect(early, ld # loaded, ld, doc.title, doc.verses), qrURL)
    /\ decoding' = "settled"
    /\ UNCHANGED <<url, historyLen, encoded, nEdits, qrURL, qrTimers, objectURLs, created>>
    /\ LoadFrame

\* A compress promise resolves: replaceState(output); updateQRCode()
CompressDone ==
    /\ \E i \in DOMAIN compressing :
        LET h == replaceState([len |-> historyLen, url |-> url],
                              compress(compressing[i]))
        IN  /\ url' = h.url
            /\ historyLen' = h.len
            /\ encoded' = Some(compressing[i])
            /\ compressing' = SubSeq(compressing, 1, i - 1)
                                \o SubSeq(compressing, i + 1, Len(compressing))
            /\ closures' = SubSeq(closures, 1, i - 1)
                                \o SubSeq(closures, i + 1, Len(closures))
            /\ qrTimers' = updateQRCode(qrTimers, closures[i])
    /\ UNCHANGED <<storeVars, loaded, decoding, nEdits, qrURL, objectURLs, created>>
    /\ LoadFrame

\* The form is rendered once loaded; an edit re-renders and runs the effect
CanEdit ==
    /\ loaded
    /\ nEdits < MaxEdits
    /\ Len(compressing) < MaxPending

\* What the verses array captured by a flow holds after the reducer's
\* delete branch has run on it: the two splice calls take their elements
\* out of the array itself.
SplicedInPlace(vs, index) ==
    SpliceFrom(Splice(vs, 0, index).rest, index + 1).rest

\* The flows after a delete: a closure whose array is the store's state
\* sees it spliced
Spliced(fs, index) ==
    [f \in DOMAIN fs |->
        IF fs[f].live THEN [fs[f] EXCEPT !.snap = SplicedInPlace(@, index)]
        ELSE fs[f]]

\* The flows after the reducer has returned: the store's state is a new
\* array, the closures keep theirs
Released(fs) == [f \in DOMAIN fs |-> [fs[f] EXCEPT !.live = FALSE]]

EditFrame ==
    UNCHANGED <<histVars, rev, engineOk, isPlaying, currentVerse,
                currentTimeout, timers, synth>>

Edited(t, vs, changed, fs) ==
    /\ title' = t
    /\ verses' = vs
    /\ flows' = fs
    /\ compressing' = EncodeEffect(compressing, changed, loaded, t, vs)
    /\ closures' = Capture(closures,
                            EncodeEffect(compressing, changed, loaded, t, vs), qrURL)
    /\ nEdits' = nEdits + 1
    /\ UNCHANGED <<loaded, decoding, url, historyLen, encoded, qrURL, qrTimers,
                   objectURLs, created>>
    /\ EditFrame

\* Title input onChange: setTitle bails out on an equal string
EditTitle ==
    /\ CanEdit
    /\ \E t \in Titles : Edited(t, verses, t # title, flows)

\* Add Verse onClick
AddVerse ==
    /\ CanEdit
    /\ ControlsEnabled
    /\ Len(verses) < MaxLoadVerses
    /\ Edited(title,
              updateVerses(verses, VerseAction(Len(verses),
                                [text |-> <<>>, pause |-> PauseDefault])),
              TRUE, Released(flows))

\* Clear onClick
ClearVerses ==
    /\ CanEdit
    /\ ControlsEnabled
    /\ Edited(title, updateVerses(verses, ReplaceAction(<<>>)), TRUE, Released(flows))

\* textarea onChange
EditText ==
    /\ CanEdit
    /\ \E index \in 0 .. Len(verses) - 1, text \in Texts :
        Edited(title, updateVerses(verses, VerseAction(index, [text |-> text])),
               TRUE, Released(flows))

\* pause input onChange: valueAsNumber * 1000
EditPause ==
    /\ CanEdit
    /\ \E index \in 0 .. Len(verses) - 1, pause \in Pauses :
        Edited(title, updateVerses(verses, VerseAction(index, [pause |-> pause])),
               TRUE, Released(flows))

\* Delete onClick, confirmed
DeleteVerse ==
    /\ CanEdit
    /\ ControlsEnabled
    /\ \E index \in 0 .. Len(verses) - 1 :
        Edited(title, updateVerses(verses, DeleteAction(index)),
               TRUE, Released(Spliced(flows, index)))

\* The page is opened anew at the current URL: a fresh mount
Reload ==
    /\ loaded
    /\ title' = ""
    /\ verses' = <<>>
    /\ loaded' = FALSE
    /\ decoding' = "pending"
    /\ compressing' = EncodeEffect(<<>>, TRUE, FALSE, "", <<>>)
    /\ qrURL' = None
    /\ closures' = Capture(<<>>, EncodeEffect(<<>>, TRUE, FALSE, "", <<>>), None)
    /\ qrTimers' = <<>>
    /\ objectURLs' = {}
    /\ created' = 0
    /\ UNCHANGED <<url, historyLen, encoded, nEdits>>
    /\ LoadFrame

\* The oldest debounce timer fires: toCanvas draws window.location.href,
\* toBlob hands over the image, the qrURL this updateQRCode was built over
\* is revoked and a new object URL is created and shown.
QrRender ==
    /\ qrTimers # <<>>
    /\ LET seen == Head(qrTimers)
           fresh == created + 1
       IN  /\ objectURLs' = Revoke(objectURLs, seen) \cup {fresh}
           /\ qrURL' = Some(fresh)
           /\ created' = fresh
    /\ qrTimers' = Tail(qrTimers)
    /\ UNCHANGED <<storeVars, loadVars, closures>>
    /\ LoadFrame

BadTokens == {<<>>, <<"x">>, <<"lzw", "t", "1">>}

SharedDocuments ==
    {Document(t, vs) : t \in Titles, vs \in SeqsUpTo(VerseValues, MaxShared)}

InitLoad ==
    /\ title = ""
    /\ verses = <<>>
    /\ prevVerses = <<>>
    /\ lastAction = NoAction
    /\ loaded = FALSE
    /\ decoding = "pending"
    /\ \/ /\ url \in {<<"/">> \o bad : bad \in BadTokens}
          /\ encoded = None
       \/ \E doc \in SharedDocuments :
            /\ url = <<"/">> \o compress(doc)
            /\ encoded = Some(doc)
    /\ historyLen = 1
    /\ compressing = EncodeEffect(<<>>, TRUE, FALSE, "", <<>>)
    /\ nEdits = 0
    /\ qrURL = None
    /\ closures = Capture(<<>>, compressing, None)
    /\ qrTimers = <<>>
    /\ objectURLs = {}
    /\ created = 0
    /\ IdlePlay

NextLoad ==
    \/ DecodeSettle
    \/ CompressDone
    \/ EditTitle
    \/ AddVerse
    \/ ClearVerses
    \/ EditText
    \/ EditPause
    \/ DeleteVerse
    \/ Reload
    \/ QrRender

\* A promise of the codec settles: decompress is a finite computation
SpecLoad == InitLoad /\ [][NextLoad]_vars /\ WF_vars(DecodeSettle)

---------------------------------------------------------------------------
(* URL codec adapter: properties *)

TokenDecodes == decompress(PathToken(url)).ok

DecodeSettles == decoding = "pending" /\ decoding' = "settled"

\* C8: on load, when the path holds no token or one that does not decode,
\* the document stays empty (title "", no verses) and loaded becomes true:
\* the pending decode can always settle (and under the fairness of
\* SpecLoad it does), and the step that settles it sets loaded and leaves
\* the document empty.
C8_BadTokenLoadsEmpty ==
    /\ [](~TokenDecodes =>
            /\ ~loaded => (title = "" /\ verses = <<>>)
            /\ decoding = "pending" => ENABLED DecodeSettle
            /\ decoding = "settled" => loaded)
    /\ [][(~TokenDecodes /\ DecodeSettles)
            => (loaded' /\ title' = "" /\ verses' = <<>>)]_vars

C8_Witness ==
    /\ ~TokenDecodes
    /\ decoding = "settled"
    /\ loaded
    /\ title = ""
    /\ verses = <<>>

\* C9: the URL is not rewritten before loaded is true; once loaded, every
\* change of title or verses starts an encode of the document as it then
\* is; the URL only ever becomes the token of a document handed to
\* compress, and the history never grows.
C9_UrlFollowsLoadedDocument ==
    /\ [][~loaded => url' = url]_vars
    /\ [][(loaded /\ loaded' /\ Doc' # Doc)
            => compressing' = Append(compressing, Doc')]_vars
    /\ [][url' # url
            => \E i \in DOMAIN compressing :
                    url' = <<"/">> \o compress(compressing[i])]_vars
    /\ [][historyLen' = historyLen]_vars

C9_Witness ==
    /\ loaded
    /\ nEdits > 0
    /\ encoded = Some(Doc)
    /\ url = <<"/">> \o compress(Doc)
    /\ Len(verses) > 0
    /\ historyLen = 1

---------------------------------------------------------------------------
(* QR renderer and URL convergence: properties *)

\* C13: QR rendering is coalesced.  An updateQRCode() call made while the
\* debounce timer of an earlier call is pending (less than 500 ms after it)
\* belongs to the same burst, and a burst has one render, after its last
\* call: there are never two debounce timers pending.
C13_QrCoalesced == Len(qrTimers) <= 1

\* C14: every superseded QR object URL has been revoked: at most one object
\* URL is created and not revoked, the one shown.
C14_OneLiveObjectURL ==
    /\ Cardinality(objectURLs) <= 1
    /\ \A u \in objectURLs : qrURL = Some(u)

\* C17: once loaded, when no compress is pending any more, in whatever
\* order they completed, the URL holds the token of the current title and
\* verses.
C17_UrlConverges ==
    (loaded /\ compressing = <<>>) => url = <<"/">> \o compress(Doc)

---------------------------------------------------------------------------
(* The document edited while playback is in flight *)

\* The behaviours looked at: one Play or Test, the speech engine present,
\* and the edits made while that flow is in flight.
InitEdit ==
    /\ Init
    /\ engineOk

RunInFlight == \E f \in DOMAIN flows : InFlight(flows[f])

NextEdit ==
    \/ flows = <<>> /\ ClickPlay
    \/ flows = <<>> /\ ClickTest
    \/ ClickStop
    \/ UtteranceEnd
    \/ UtteranceError
    \/ InterruptedEnd
    \/ InterruptedError
    \/ TimerFire
    \/ RunInFlight /\ EditTitle
    \/ RunInFlight /\ AddVerse
    \/ RunInFlight /\ ClearVerses
    \/ RunInFlight /\ EditText
    \/ RunInFlight /\ EditPause
    \/ RunInFlight /\ DeleteVerse
    \/ CompressDone
    \/ QrRender

SpecEdit == InitEdit /\ [][NextEdit]_vars

\* C12: in every revision the jobs of a play() run are those of the verse
\* sequence at the call: an edit made while the run is in flight changes
\* neither their number nor the text or pause of one not yet spoken, and
\* does not abort the run.
C12_JobsFixedAtPlay ==
    \A f \in DOMAIN flows :
        LET fl == flows[f]
        IN  (fl.kind = "play" /\ ~fl.stopped /\ ~fl.failed)
            => /\ Len(fl.jobs) <= Len(fl.planned)
               /\ fl.jobs = SubSeq(fl.planned, 1, Len(fl.jobs))
               /\ fl.phase # "rejected"
               /\ fl.phase = "settled" => fl.jobs = fl.planned

\* C15: in part_002, while isPlaying is true no step changes the document:
\* add, clear, delete, the edit of a verse's text or pause and the edit of
\* the title are all impossible.
C15_NoEditWhilePlaying ==
    [][(rev = "part_002" /\ isPlaying) => (title' = title /\ verses' = verses)]_vars

\* C16: in every revision a Play or Test flow that is not stopped and whose
\* utterances all report 'end' ends Idle.  When the chain of the flow has
\* run to its end after the last pause, nothing of it is pending any more,
\* so the state it leaves is the state until the next Play or Test: that
\* state is isPlaying false and currentVerse -1.
C16_FlowEndsIdle ==
    \A f \in DOMAIN flows :
        (flows[f].phase = "settled" /\ ~flows[f].stopped /\ ~flows[f].failed
            /\ Len(flows) = 1)
        => Idle

=============================================================================
